---- MODULE Spec2Model ----
(***************************************************************************)
(* Surveillance dashboard: the central store (surveillanceReducer), the    *)
(* SurveillanceProvider's fetches, mutations, periodic refresh and health  *)
(* probe, and the per-camera live-feed session (ViamVideoPlayer).          *)
(***************************************************************************)
EXTENDS Integers, Sequences, FiniteSets, TLC

VARIABLES
    state,          \* the reducer's snapshot (useReducer)
    clock,          \* the latest time new Date() has returned
    view,           \* "init" | "running" | "stopped": the provider's life
    refreshTimer,   \* the 30 s setInterval handle is live
    healthTimer,    \* the 10 s setInterval handle is live
    nextId,         \* next request number (order of invocation)
    fetches,        \* fetch* calls awaiting their response
    settled,        \* per resource key, the fetches that have settled, in that order
    mutations,      \* create/update/acknowledge/resolve calls in progress
    probes,         \* checkConnection calls awaiting their response
    outcome,        \* how the mutation call that completed in the latest step ended
    mounted,        \* "init" | "mounted" | "unmounted": the player component's life
    autoConnect,    \* the player's autoConnect prop
    player,         \* the player's hook state, its eventSourceRef and its EventSources
    connects,       \* connectToCamera calls awaiting a response
    attempts,       \* how many connectToCamera calls were made
    peer            \* the session of a second ViamVideoPlayer, for another camera

storeVars == <<state, clock, view, refreshTimer, healthTimer, nextId, fetches,
               settled, mutations, probes, outcome>>

playerVars == <<mounted, autoConnect, player, connects, attempts>>

vars == <<storeVars, playerVars, peer>>

-----------------------------------------------------------------------------
(* Bounds of the model *)

MaxRequests == 6
MaxClock == 2
MaxConnects == 3

-----------------------------------------------------------------------------
(* Data *)

Keys == {"overview", "towers", "cameras", "alarms"}

NoTime == 0

Tower(i, n) == [id |-> i, name |-> n, status |-> "online"]
Camera(i, s) == [id |-> i, status |-> s]
Alarm(i, s) == [id |-> i, status |-> s]

Overview(t, c, a, s) ==
    [towers_count |-> t, cameras_count |-> c, active_alarms_count |-> a,
     system_status |-> s]

NoErrors == [k \in {} |-> ""]

initialState ==
    [overview |-> Overview(0, 0, 0, "loading"),
     towers |-> <<>>,
     cameras |-> <<>>,
     alarms |-> <<>>,
     loading |-> [k \in Keys |-> FALSE],
     errors |-> NoErrors,
     lastUpdate |-> NoTime,
     connectionStatus |-> "disconnected"]

-----------------------------------------------------------------------------
(* The reducer *)

\* { ...entity, ...partial }
Merge(entity, partial) ==
    [f \in DOMAIN entity \cup DOMAIN partial |->
        IF f \in DOMAIN partial THEN partial[f] ELSE entity[f]]

\* mutant: the patch is applied to every entity of the list
MapUpdatePatchesAll(list, partial) ==
    [i \in DOMAIN list |-> Merge(list[i], partial)]

\* mutant: the matching entity is replaced by the partial instead of merged
MapUpdateReplaces(list, partial) ==
    [i \in DOMAIN list |-> IF list[i].id = partial.id THEN partial ELSE list[i]]

\* list.map(e => e.id === partial.id ? { ...e, ...partial } : e)
MapUpdate(list, partial) ==
    [i \in DOMAIN list |->
        IF list[i].id = partial.id THEN Merge(list[i], partial) ELSE list[i]]

SetKey(f, k, v) == [x \in DOMAIN f \cup {k} |-> IF x = k THEN v ELSE f[x]]

DeleteKey(f, k) == [x \in DOMAIN f \ {k} |-> f[x]]

ReduceSetLoading(s, a) ==
    [s EXCEPT !.loading = SetKey(s.loading, a.payload.key, a.payload.value)]

\* mutant: the error is recorded but the loading flag is left as it was
ReduceSetErrorKeepsLoading(s, a) ==
    [s EXCEPT !.errors = SetKey(s.errors, a.payload.key, a.payload.error)]

\* mutant: a message already recorded for the key is kept
ReduceSetErrorKeepsFirst(s, a) ==
    [s EXCEPT !.errors = IF a.payload.key \in DOMAIN s.errors THEN s.errors
                         ELSE SetKey(s.errors, a.payload.key, a.payload.error),
              !.loading = SetKey(s.loading, a.payload.key, FALSE)]

\* mutant: recording an error drops the errors recorded for the other keys
ReduceSetErrorForgetsOthers(s, a) ==
    [s EXCEPT !.errors = SetKey(NoErrors, a.payload.key, a.payload.error),
              !.loading = SetKey(s.loading, a.payload.key, FALSE)]

ReduceSetError(s, a) ==
    [s EXCEPT !.errors = SetKey(s.errors, a.payload.key, a.payload.error),
              !.loading = SetKey(s.loading, a.payload.key, FALSE)]

ReduceClearError(s, a) ==
    [s EXCEPT !.errors = DeleteKey(s.errors, a.payload.key)]

\* mutant: an overview that is already loaded is not overwritten
ReduceSetOverviewFirstWins(s, a, now) ==
    IF s.lastUpdate # NoTime
    THEN [s EXCEPT !.loading = SetKey(s.loading, "overview", FALSE)]
    ELSE [s EXCEPT !.overview = a.payload,
                   !.loading = SetKey(s.loading, "overview", FALSE),
                   !.lastUpdate = now]

\* mutant: the overview is replaced but lastUpdate is not stamped
ReduceSetOverviewKeepsStamp(s, a, now) ==
    [s EXCEPT !.overview = a.payload,
              !.loading = SetKey(s.loading, "overview", FALSE)]

ReduceSetOverview(s, a, now) ==
    [s EXCEPT !.overview = a.payload,
              !.loading = SetKey(s.loading, "overview", FALSE),
              !.lastUpdate = now]

ReduceSetTowers(s, a) ==
    [s EXCEPT !.towers = a.payload,
              !.loading = SetKey(s.loading, "towers", FALSE)]

ReduceSetCameras(s, a) ==
    [s EXCEPT !.cameras = a.payload,
              !.loading = SetKey(s.loading, "cameras", FALSE)]

\* mutant: the loaded alarms are appended to the ones already held
ReduceSetAlarmsAppends(s, a) ==
    [s EXCEPT !.alarms = s.alarms \o a.payload,
              !.loading = SetKey(s.loading, "alarms", FALSE)]

ReduceSetAlarms(s, a) ==
    [s EXCEPT !.alarms = a.payload,
              !.loading = SetKey(s.loading, "alarms", FALSE)]

\* mutant: the new alarm is pushed twice
ReduceAddAlarmTwice(s, a) ==
    [s EXCEPT !.alarms = <<a.payload, a.payload>> \o s.alarms,
              !.overview = [s.overview EXCEPT !.active_alarms_count =
                                s.overview.active_alarms_count + 1]]

\* mutant: the new alarm goes to the end of the list
ReduceAddAlarmAppends(s, a) ==
    [s EXCEPT !.alarms = s.alarms \o <<a.payload>>,
              !.overview = [s.overview EXCEPT !.active_alarms_count =
                                s.overview.active_alarms_count + 1]]

ReduceAddAlarm(s, a) ==
    [s EXCEPT !.alarms = <<a.payload>> \o s.alarms,
              !.overview = [s.overview EXCEPT !.active_alarms_count =
                                s.overview.active_alarms_count + 1]]

\* mutant: an alarm update that resolves also takes one off the active count
ReduceUpdateAlarmRecounts(s, a) ==
    [s EXCEPT !.alarms = MapUpdate(s.alarms, a.payload),
              !.overview = [s.overview EXCEPT !.active_alarms_count =
                                IF a.payload.status = "resolved" THEN @ - 1 ELSE @]]

ReduceUpdateAlarm(s, a) == [s EXCEPT !.alarms = MapUpdate(s.alarms, a.payload)]

ReduceUpdateTower(s, a) == [s EXCEPT !.towers = MapUpdate(s.towers, a.payload)]

ReduceUpdateCamera(s, a) == [s EXCEPT !.cameras = MapUpdate(s.cameras, a.payload)]

ReduceSetConnectionStatus(s, a) == [s EXCEPT !.connectionStatus = a.payload]

\* mutant: a command of unknown type resets the store
surveillanceReducerResetsOnUnknown(s, a, now) ==
    CASE a.type = "SET_LOADING" -> ReduceSetLoading(s, a)
      [] a.type = "SET_ERROR" -> ReduceSetError(s, a)
      [] a.type = "CLEAR_ERROR" -> ReduceClearError(s, a)
      [] a.type = "SET_OVERVIEW" -> ReduceSetOverview(s, a, now)
      [] a.type = "SET_TOWERS" -> ReduceSetTowers(s, a)
      [] a.type = "SET_CAMERAS" -> ReduceSetCameras(s, a)
      [] a.type = "SET_ALARMS" -> ReduceSetAlarms(s, a)
      [] a.type = "ADD_ALARM" -> ReduceAddAlarm(s, a)
      [] a.type = "UPDATE_ALARM" -> ReduceUpdateAlarm(s, a)
      [] a.type = "UPDATE_TOWER" -> ReduceUpdateTower(s, a)
      [] a.type = "UPDATE_CAMERA" -> ReduceUpdateCamera(s, a)
      [] a.type = "SET_CONNECTION_STATUS" -> ReduceSetConnectionStatus(s, a)
      [] OTHER -> initialState

surveillanceReducer(s, a, now) ==
    CASE a.type = "SET_LOADING" -> ReduceSetLoading(s, a)
      [] a.type = "SET_ERROR" -> ReduceSetError(s, a)
      [] a.type = "CLEAR_ERROR" -> ReduceClearError(s, a)
      [] a.type = "SET_OVERVIEW" -> ReduceSetOverview(s, a, now)
      [] a.type = "SET_TOWERS" -> ReduceSetTowers(s, a)
      [] a.type = "SET_CAMERAS" -> ReduceSetCameras(s, a)
      [] a.type = "SET_ALARMS" -> ReduceSetAlarms(s, a)
      [] a.type = "ADD_ALARM" -> ReduceAddAlarm(s, a)
      [] a.type = "UPDATE_ALARM" -> ReduceUpdateAlarm(s, a)
      [] a.type = "UPDATE_TOWER" -> ReduceUpdateTower(s, a)
      [] a.type = "UPDATE_CAMERA" -> ReduceUpdateCamera(s, a)
      [] a.type = "SET_CONNECTION_STATUS" -> ReduceSetConnectionStatus(s, a)
      [] OTHER -> s

-----------------------------------------------------------------------------
(* The backend as the client sees it: what an HTTP exchange can produce *)

TowerIds == {"t1", "t2"}
CameraIds == {"c1", "c2"}
AlarmIds == {"a1", "a2"}

Overviews == {Overview(3, 9, 1, "ok"), Overview(3, 9, 2, "degraded")}
TowerLists == {<<Tower("t1", "A")>>, <<Tower("t2", "A"), Tower("t1", "B")>>}
CameraLists == {<<Camera("c1", "online")>>,
                <<Camera("c2", "online"), Camera("c1", "offline")>>}
AlarmLists == {<<Alarm("a1", "active")>>,
               <<Alarm("a2", "active"), Alarm("a1", "acknowledged")>>}

DataFor(key) ==
    CASE key = "overview" -> Overviews
      [] key = "towers" -> TowerLists
      [] key = "cameras" -> CameraLists
      [] key = "alarms" -> AlarmLists

\* an exchange either fails in transport (fetch rejects) or yields a status
\* line (ok) and a JSON body
HttpOutcomes(datas) ==
    {[net |-> TRUE, ok |-> TRUE, body |-> [success |-> TRUE, data |-> d]] : d \in datas}
    \cup {[net |-> TRUE, ok |-> TRUE, body |-> [success |-> FALSE, error |-> "db unreachable"]],
          [net |-> TRUE, ok |-> TRUE, body |-> [success |-> FALSE]],
          [net |-> TRUE, ok |-> FALSE, body |-> [success |-> FALSE, error |-> "db unreachable"]],
          [net |-> FALSE, message |-> "Failed to fetch"]}

\* x.error || fallback
ErrorOr(body, fallback) ==
    IF "error" \in DOMAIN body /\ body.error # "" THEN body.error ELSE fallback

\* SurveillanceAPI.request: the parsed body, or a thrown Error
request(h) ==
    IF ~h.net THEN [thrown |-> TRUE, message |-> h.message]
    ELSE IF ~h.ok
         THEN [thrown |-> TRUE, message |-> ErrorOr(h.body, "HTTP error! status: 500")]
         ELSE [thrown |-> FALSE, body |-> h.body]

-----------------------------------------------------------------------------
(* SurveillanceProvider: dispatch and the record of the latest step *)

Cmd(t, p) == [type |-> t, payload |-> p]

\* no mutation call completed in the step
NoOutcome == [op |-> "none", result |-> "none", message |-> ""]

\* the call resolved with the response ("returned") or rejected with an Error
Outcome(op, result, message) == [op |-> op, result |-> result, message |-> message]

setLoading(s, key, value) ==
    surveillanceReducer(s, Cmd("SET_LOADING", [key |-> key, value |-> value]), clock)

setError(s, key, error) ==
    surveillanceReducer(s, Cmd("SET_ERROR", [key |-> key, error |-> error]), clock)

SetType(key) ==
    CASE key = "overview" -> "SET_OVERVIEW"
      [] key = "towers" -> "SET_TOWERS"
      [] key = "cameras" -> "SET_CAMERAS"
      [] key = "alarms" -> "SET_ALARMS"

FetchFallback(key) ==
    CASE key = "overview" -> "Failed to fetch overview"
      [] key = "towers" -> "Failed to fetch towers"
      [] key = "cameras" -> "Failed to fetch cameras"
      [] key = "alarms" -> "Failed to fetch alarms"

\* the synchronous head of fetchOverview/fetchTowers/fetchCameras/fetchAlarms:
\* setLoading(key, true), then the request is in flight
FetchCall(s, key) == setLoading(s, key, TRUE)

\* mutant: a success:false response is always reported with the fallback text
FetchResumeDropsReason(s, key, r, now) ==
    IF r.thrown THEN setError(s, key, r.message)
    ELSE IF r.body.success
         THEN surveillanceReducer(s, Cmd(SetType(key), r.body.data), now)
         ELSE setError(s, key, FetchFallback(key))

\* the continuation after the await
FetchResume(s, key, r, now) ==
    IF r.thrown THEN setError(s, key, r.message)
    ELSE IF r.body.success
         THEN surveillanceReducer(s, Cmd(SetType(key), r.body.data), now)
         ELSE setError(s, key, ErrorOr(r.body, FetchFallback(key)))

IsSuccess(r) == ~r.thrown /\ r.body.success

FetchDispatched(key, r) == IF IsSuccess(r) THEN SetType(key) ELSE "SET_ERROR"

Fetch(key, waiter) == [id |-> nextId, key |-> key, waiter |-> waiter]

NoWaiter == 0

-----------------------------------------------------------------------------
(* SurveillanceProvider: fetches *)

StartFetch(key, waiter) ==
    /\ state' = FetchCall(state, key)
    /\ fetches' = fetches \cup {Fetch(key, waiter)}
    /\ nextId' = nextId + 1
    /\ outcome' = NoOutcome

\* a consumer calls actions.fetchOverview() (a manual refresh)
fetchOverview ==
    /\ view = "running" /\ nextId <= MaxRequests
    /\ StartFetch("overview", NoWaiter)
    /\ UNCHANGED <<clock, view, refreshTimer, healthTimer, settled, mutations, probes>>

fetchTowers ==
    /\ view = "running" /\ nextId <= MaxRequests
    /\ StartFetch("towers", NoWaiter)
    /\ UNCHANGED <<clock, view, refreshTimer, healthTimer, settled, mutations, probes>>

fetchCameras ==
    /\ view = "running" /\ nextId <= MaxRequests
    /\ StartFetch("cameras", NoWaiter)
    /\ UNCHANGED <<clock, view, refreshTimer, healthTimer, settled, mutations, probes>>

fetchAlarms ==
    /\ view = "running" /\ nextId <= MaxRequests
    /\ StartFetch("alarms", NoWaiter)
    /\ UNCHANGED <<clock, view, refreshTimer, healthTimer, settled, mutations, probes>>

\* mutant: a create* call rejects when the refetch it awaits fails
FetchSettleRejectsWaiter(f, h, now) ==
    /\ state' = FetchResume(state, f.key, request(h), now)
    /\ clock' = now
    /\ fetches' = fetches \ {f}
    /\ settled' = [settled EXCEPT ![f.key] = Append(@, f.id)]
    /\ mutations' = {m \in mutations : m.id # f.waiter}
    /\ outcome' = IF \E m \in mutations : m.id = f.waiter
                  THEN Outcome((CHOOSE m \in mutations : m.id = f.waiter).op,
                               IF IsSuccess(request(h)) THEN "returned" ELSE "thrown", "")
                  ELSE NoOutcome
    /\ UNCHANGED <<view, refreshTimer, healthTimer, nextId, probes>>

\* the response of an in-flight fetch arrives; a create* call awaiting this
\* refetch then returns its own response
FetchSettle(f, h, now) ==
    /\ state' = FetchResume(state, f.key, request(h), now)
    /\ clock' = now
    /\ fetches' = fetches \ {f}
    /\ settled' = [settled EXCEPT ![f.key] = Append(@, f.id)]
    /\ mutations' = {m \in mutations : m.id # f.waiter}
    /\ outcome' = IF \E m \in mutations : m.id = f.waiter
                  THEN Outcome((CHOOSE m \in mutations : m.id = f.waiter).op, "returned", "")
                  ELSE NoOutcome
    /\ UNCHANGED <<view, refreshTimer, healthTimer, nextId, probes>>

\* what new Date() can return when a SET_OVERVIEW is reduced: time does not go
\* back, and need not have advanced since the last reading
Readings(f, h) ==
    IF FetchDispatched(f.key, request(h)) = "SET_OVERVIEW"
    THEN {t \in {clock, clock + 1} : t <= MaxClock}
    ELSE {clock}

SettleFetch ==
    \E f \in fetches : \E h \in HttpOutcomes(DataFor(f.key)) :
        \E now \in Readings(f, h) : FetchSettle(f, h, now)

-----------------------------------------------------------------------------
(* SurveillanceProvider: mutations *)

Ops == {"createTower", "updateTower", "createCamera", "acknowledgeAlarm", "resolveAlarm"}

OwnerKey(op) ==
    CASE op \in {"createTower", "updateTower"} -> "towers"
      [] op = "createCamera" -> "cameras"
      [] op \in {"acknowledgeAlarm", "resolveAlarm"} -> "alarms"

MutationFallback(op) ==
    CASE op = "createTower" -> "Failed to create tower"
      [] op = "updateTower" -> "Failed to update tower"
      [] op = "createCamera" -> "Failed to create camera"
      [] op = "acknowledgeAlarm" -> "Failed to acknowledge alarm"
      [] op = "resolveAlarm" -> "Failed to resolve alarm"

Targets(op) ==
    CASE op = "updateTower" -> TowerIds
      [] op \in {"acknowledgeAlarm", "resolveAlarm"} -> AlarmIds
      [] OTHER -> {"new"}

\* what the backend can answer in data to a successful mutation
\* (an updated tower comes back whole, or as the fields that were sent)
MutationData(m) ==
    IF m.op = "updateTower"
    THEN {Tower(m.target, "C"), [id |-> m.target, name |-> "C"]}
    ELSE {[id |-> m.target]}

\* the synchronous head of a mutation: the request goes out, nothing is dispatched
StartMutation(op, target) ==
    /\ view = "running" /\ nextId <= MaxRequests
    /\ mutations' = mutations \cup {[id |-> nextId, op |-> op, target |-> target,
                                    phase |-> "api"]}
    /\ nextId' = nextId + 1
    /\ outcome' = NoOutcome
    /\ UNCHANGED <<state, clock, view, refreshTimer, healthTimer, fetches, settled, probes>>

\* the command a successful update/acknowledge/resolve dispatches
UpdateCmd(m, body) ==
    CASE m.op = "updateTower" -> Cmd("UPDATE_TOWER", body.data)
      [] m.op = "acknowledgeAlarm" ->
            Cmd("UPDATE_ALARM", [id |-> m.target, status |-> "acknowledged"])
      [] m.op = "resolveAlarm" ->
            Cmd("UPDATE_ALARM", [id |-> m.target, status |-> "resolved"])

\* the catch block: the thrown message, or the message of the Error the else
\* branch threw
FailureMessage(m, r) ==
    IF r.thrown THEN r.message ELSE ErrorOr(r.body, MutationFallback(m.op))

Creates == {"createTower", "createCamera"}

\* the store after the continuation of a mutation has run on the response r:
\* the catch block's setError, the synchronous head of the refetch, or the
\* targeted Update* command
MutationResume(s, m, r) ==
    IF ~IsSuccess(r) THEN setError(s, OwnerKey(m.op), FailureMessage(m, r))
    ELSE IF m.op \in Creates THEN FetchCall(s, OwnerKey(m.op))
    ELSE surveillanceReducer(s, UpdateCmd(m, r.body), clock)

\* mutant: the failure is recorded in the store but not rethrown
MutationOutcomeSwallowed(m, r) ==
    IF ~IsSuccess(r) THEN Outcome(m.op, "returned", "")
    ELSE IF m.op \in Creates THEN NoOutcome
    ELSE Outcome(m.op, "returned", "")

\* mutant: a create* call returns its response without awaiting the refetch
MutationOutcomeReturnsEarly(m, r) ==
    IF ~IsSuccess(r) THEN Outcome(m.op, "thrown", FailureMessage(m, r))
    ELSE Outcome(m.op, "returned", "")

\* how the call ends for its caller: `throw error`, `return response`, or not
\* yet (a create* call goes on to await its refetch)
MutationOutcome(m, r) ==
    IF ~IsSuccess(r) THEN Outcome(m.op, "thrown", FailureMessage(m, r))
    ELSE IF m.op \in Creates THEN NoOutcome
    ELSE Outcome(m.op, "returned", "")

MutationSettle(m, h) ==
    /\ m.phase = "api"
    /\ state' = MutationResume(state, m, request(h))
    /\ outcome' = MutationOutcome(m, request(h))
    /\ IF IsSuccess(request(h)) /\ m.op \in Creates
       THEN /\ fetches' = fetches \cup {Fetch(OwnerKey(m.op), m.id)}
            /\ nextId' = nextId + 1
            /\ mutations' = (mutations \ {m}) \cup {[m EXCEPT !.phase = "refetch"]}
       ELSE /\ mutations' = mutations \ {m}
            /\ UNCHANGED <<fetches, nextId>>
    /\ UNCHANGED <<clock, view, refreshTimer, healthTimer, settled, probes>>

createTower == StartMutation("createTower", "new")
updateTower == \E t \in TowerIds : StartMutation("updateTower", t)
createCamera == StartMutation("createCamera", "new")
acknowledgeAlarm == \E a \in AlarmIds : StartMutation("acknowledgeAlarm", a)
resolveAlarm == \E a \in AlarmIds : StartMutation("resolveAlarm", a)

SettleMutation ==
    \E m \in mutations : \E h \in HttpOutcomes(MutationData(m)) : MutationSettle(m, h)

-----------------------------------------------------------------------------
(* SurveillanceProvider: the effects (initial load, timers, health probe) *)

Probe == [id |-> nextId]

\* both effects run at mount: four immediate fetches and setInterval(30000);
\* checkConnection() and setInterval(10000)
Mount ==
    /\ view = "init"
    /\ state' = FetchCall(FetchCall(FetchCall(FetchCall(state, "overview"),
                                              "towers"), "cameras"), "alarms")
    /\ fetches' = fetches \cup
            {[id |-> nextId, key |-> "overview", waiter |-> NoWaiter],
             [id |-> nextId + 1, key |-> "towers", waiter |-> NoWaiter],
             [id |-> nextId + 2, key |-> "cameras", waiter |-> NoWaiter],
             [id |-> nextId + 3, key |-> "alarms", waiter |-> NoWaiter]}
    /\ probes' = probes \cup {[id |-> nextId + 4]}
    /\ nextId' = nextId + 5
    /\ refreshTimer' = TRUE
    /\ healthTimer' = TRUE
    /\ view' = "running"
    /\ outcome' = NoOutcome
    /\ UNCHANGED <<clock, settled, mutations>>

\* mutant: the interval callback reloads every collection
RefreshTickReloadsAll ==
    /\ refreshTimer /\ nextId <= MaxRequests
    /\ state' = FetchCall(FetchCall(state, "overview"), "towers")
    /\ fetches' = fetches \cup {[id |-> nextId, key |-> "overview", waiter |-> NoWaiter],
                                [id |-> nextId + 1, key |-> "towers", waiter |-> NoWaiter]}
    /\ nextId' = nextId + 2
    /\ outcome' = NoOutcome
    /\ UNCHANGED <<clock, view, refreshTimer, healthTimer, settled, mutations, probes>>

\* the 30 s interval fires: actions.fetchOverview()
RefreshTick ==
    /\ refreshTimer /\ nextId <= MaxRequests
    /\ StartFetch("overview", NoWaiter)
    /\ UNCHANGED <<clock, view, refreshTimer, healthTimer, settled, mutations, probes>>

\* the 10 s interval fires: checkConnection() up to its await
HealthTick ==
    /\ healthTimer /\ nextId <= MaxRequests
    /\ probes' = probes \cup {Probe}
    /\ nextId' = nextId + 1
    /\ outcome' = NoOutcome
    /\ UNCHANGED <<state, clock, view, refreshTimer, healthTimer, fetches, settled,
                   mutations>>

\* mutant: any response that arrives counts as a live backend
checkConnectionTrustsAnyResponse(s, r) ==
    IF r.thrown
    THEN surveillanceReducer(s, Cmd("SET_CONNECTION_STATUS", "disconnected"), clock)
    ELSE surveillanceReducer(s, Cmd("SET_CONNECTION_STATUS", "connected"), clock)

\* checkConnection after the await
checkConnection(s, r) ==
    IF r.thrown
    THEN surveillanceReducer(s, Cmd("SET_CONNECTION_STATUS", "disconnected"), clock)
    ELSE surveillanceReducer(s, Cmd("SET_CONNECTION_STATUS",
                IF r.body.success THEN "connected" ELSE "disconnected"), clock)

ProbeSettle(p, h) ==
    /\ state' = checkConnection(state, request(h))
    /\ probes' = probes \ {p}
    /\ outcome' = NoOutcome
    /\ UNCHANGED <<clock, view, refreshTimer, healthTimer, nextId, fetches, settled,
                   mutations>>

SettleProbe == \E p \in probes : \E h \in HttpOutcomes({"healthy"}) : ProbeSettle(p, h)

\* mutant: the auto-refresh effect has no cleanup
UnmountLeavesRefreshTimer ==
    /\ view = "running"
    /\ view' = "stopped"
    /\ healthTimer' = FALSE
    /\ outcome' = NoOutcome
    /\ UNCHANGED <<state, clock, nextId, fetches, settled, mutations, probes, refreshTimer>>

\* mutant: the health-check effect has no cleanup
UnmountLeavesHealthTimer ==
    /\ view = "running"
    /\ view' = "stopped"
    /\ refreshTimer' = FALSE
    /\ outcome' = NoOutcome
    /\ UNCHANGED <<state, clock, nextId, fetches, settled, mutations, probes, healthTimer>>

\* the effects' cleanups: clearInterval(interval), twice
Unmount ==
    /\ view = "running"
    /\ view' = "stopped"
    /\ refreshTimer' = FALSE
    /\ healthTimer' = FALSE
    /\ outcome' = NoOutcome
    /\ UNCHANGED <<state, clock, nextId, fetches, settled, mutations, probes>>

-----------------------------------------------------------------------------
(* The store with its scheduler, monitor and gateway *)

StoreInit ==
    /\ state = initialState
    /\ clock = 1
    /\ view = "init"
    /\ refreshTimer = FALSE
    /\ healthTimer = FALSE
    /\ nextId = 1
    /\ fetches = {}
    /\ settled = [k \in Keys |-> <<>>]
    /\ mutations = {}
    /\ probes = {}
    /\ outcome = NoOutcome

Next ==
    \/ Mount /\ UNCHANGED <<playerVars, peer>>
    \/ RefreshTick /\ UNCHANGED <<playerVars, peer>>
    \/ HealthTick /\ UNCHANGED <<playerVars, peer>>
    \/ fetchOverview /\ UNCHANGED <<playerVars, peer>>
    \/ fetchTowers /\ UNCHANGED <<playerVars, peer>>
    \/ fetchCameras /\ UNCHANGED <<playerVars, peer>>
    \/ fetchAlarms /\ UNCHANGED <<playerVars, peer>>
    \/ SettleFetch /\ UNCHANGED <<playerVars, peer>>
    \/ createTower /\ UNCHANGED <<playerVars, peer>>
    \/ updateTower /\ UNCHANGED <<playerVars, peer>>
    \/ createCamera /\ UNCHANGED <<playerVars, peer>>
    \/ acknowledgeAlarm /\ UNCHANGED <<playerVars, peer>>
    \/ resolveAlarm /\ UNCHANGED <<playerVars, peer>>
    \/ SettleMutation /\ UNCHANGED <<playerVars, peer>>
    \/ SettleProbe /\ UNCHANGED <<playerVars, peer>>
    \/ Unmount /\ UNCHANGED <<playerVars, peer>>

-----------------------------------------------------------------------------
(* ViamVideoPlayer: one live-feed session *)

Null == "null"

Images == {"img1", "img2"}
DetectionSets == {<<>>, <<[class_name |-> "person", confidence |-> 1]>>}

\* useState(null) for cameraInfo: no camera record yet
NoCamera == [name |-> Null, stream_url |-> Null]

initialPlayer ==
    [isConnected |-> FALSE,
     isLoading |-> FALSE,
     error |-> Null,
     currentImage |-> Null,
     detections |-> <<>>,
     streamUrl |-> Null,
     cameraInfo |-> NoCamera,
     eventSourceRef |-> 0,      \* useRef(null); else the number of an EventSource
     sources |-> {},            \* the EventSources created and not closed
     created |-> 0,             \* how many EventSources were created
     requests |-> {}]           \* the one-shot requests awaiting their response

HookState == {"isConnected", "isLoading", "error", "currentImage", "detections",
              "streamUrl", "cameraInfo"}

\* a state setter called after the component has unmounted changes nothing
Commit(old, new) ==
    IF mounted = "mounted" THEN new
    ELSE [f \in DOMAIN new |-> IF f \in HookState THEN old[f] ELSE new[f]]

\* what the status, connect and cameras exchanges can produce
StatusOutcomes ==
    {[thrown |-> TRUE, message |-> "Failed to fetch"],
     [thrown |-> FALSE, connected |-> TRUE],
     [thrown |-> FALSE, connected |-> FALSE]}

ConnectOutcomes ==
    {[thrown |-> TRUE, message |-> "Failed to fetch"],
     [thrown |-> FALSE, ok |-> TRUE],
     [thrown |-> FALSE, ok |-> FALSE]}

CameraRecords == {[name |-> "cam", stream_url |-> "url"], [name |-> "cam", stream_url |-> Null]}

CamerasOutcomes ==
    {[thrown |-> TRUE, message |-> "Failed to fetch"],
     [thrown |-> FALSE, ok |-> FALSE, found |-> FALSE],
     [thrown |-> FALSE, ok |-> TRUE, found |-> FALSE]}
    \cup {[thrown |-> FALSE, ok |-> TRUE, found |-> TRUE, camera |-> c] : c \in CameraRecords}

\* what GET /api/viam/cameras/<name>/image can produce
SnapshotOutcomes ==
    {[thrown |-> TRUE, message |-> "Failed to fetch"],
     [thrown |-> FALSE, ok |-> FALSE, success |-> FALSE],
     [thrown |-> FALSE, ok |-> TRUE, success |-> FALSE]}
    \cup {[thrown |-> FALSE, ok |-> TRUE, success |-> TRUE, image |-> i] : i \in Images}

OnDemandDetections == {<<>>, <<[class_name |-> "car", confidence |-> 1]>>}

\* what GET /api/viam/cameras/<name>/detections can produce
DetectionsOutcomes ==
    {[thrown |-> TRUE, message |-> "Failed to fetch"],
     [thrown |-> FALSE, ok |-> FALSE, success |-> FALSE],
     [thrown |-> FALSE, ok |-> TRUE, success |-> FALSE]}
    \cup {[thrown |-> FALSE, ok |-> TRUE, success |-> TRUE, detections |-> d] :
            d \in OnDemandDetections}

\* what an event of the live feed can carry
Payloads ==
    {[malformed |-> TRUE],
     [malformed |-> FALSE, error |-> "decode failure"],
     [malformed |-> FALSE, error |-> "camera offline"]}
    \cup {[malformed |-> FALSE, error |-> Null, image |-> i, detections |-> d] :
            i \in Images, d \in DetectionSets}

\* connectToCamera up to its first await
connectHead(p) == [p EXCEPT !.isLoading = TRUE, !.error = Null]

\* catch (err) { setError(err.message) } finally { setIsLoading(false) }
connectCatch(p, message) == [p EXCEPT !.error = message, !.isLoading = FALSE]

\* mutant: the previous EventSource is not closed
startLiveFeedKeepsOld(p) ==
    [p EXCEPT !.sources = @ \cup {p.created + 1},
              !.eventSourceRef = p.created + 1,
              !.created = p.created + 1]

\* startLiveFeed: close the EventSource the ref holds, create the next one
startLiveFeed(p) ==
    [p EXCEPT !.sources = (@ \ {p.eventSourceRef}) \cup {p.created + 1},
              !.eventSourceRef = p.created + 1,
              !.created = p.created + 1]

\* the camera info block of connectToCamera
cameraInfoBlock(p, o) ==
    IF o.ok /\ o.found
    THEN [p EXCEPT !.cameraInfo = o.camera,
                   !.streamUrl = IF o.camera.stream_url # Null
                                 THEN o.camera.stream_url ELSE @]
    ELSE p

\* mutant: the call ends without marking the session connected
connectTailStaysOffline(p, o) ==
    [startLiveFeed(cameraInfoBlock(p, o)) EXCEPT !.isLoading = FALSE]

\* connectToCamera from the cameras response to its end
connectTail(p, o) ==
    [startLiveFeed(cameraInfoBlock(p, o)) EXCEPT !.isConnected = TRUE, !.isLoading = FALSE]

\* mutant: an {error} payload also drops the frame
onmessageErrorDropsFrame(p, data) ==
    IF data.malformed THEN p
    ELSE IF data.error # Null
         THEN [p EXCEPT !.error = data.error, !.currentImage = Null, !.detections = <<>>]
    ELSE [p EXCEPT !.currentImage = data.image,
                   !.detections = data.detections,
                   !.error = Null]

\* mutant: a payload that cannot be parsed is reported as an error
onmessageReportsMalformed(p, data) ==
    IF data.malformed THEN [p EXCEPT !.error = "Invalid payload"]
    ELSE IF data.error # Null THEN [p EXCEPT !.error = data.error]
    ELSE [p EXCEPT !.currentImage = data.image,
                   !.detections = data.detections,
                   !.error = Null]

\* eventSource.onmessage
onmessage(p, data) ==
    IF data.malformed THEN p
    ELSE IF data.error # Null THEN [p EXCEPT !.error = data.error]
    ELSE [p EXCEPT !.currentImage = data.image,
                   !.detections = data.detections,
                   !.error = Null]

\* eventSource.onerror
onerror(p) == [p EXCEPT !.error = "Live feed connection lost", !.isConnected = FALSE]

\* disconnect
disconnect(p) ==
    [p EXCEPT !.sources = @ \ {p.eventSourceRef},
              !.eventSourceRef = 0,
              !.isConnected = FALSE,
              !.currentImage = Null,
              !.detections = <<>>]

\* captureSnapshot after its awaits: a download link is clicked or the error is
\* logged; no state setter is called
captureSnapshot(p, o) == p

\* mutant: a failed detection request is shown as the session's error
getDetectionsReportsFailure(p, o) ==
    IF ~o.thrown /\ o.ok /\ o.success THEN [p EXCEPT !.detections = o.detections]
    ELSE [p EXCEPT !.error = "Error getting detections"]

\* getDetections after its awaits: setDetections(data.detections) on success
getDetections(p, o) ==
    IF ~o.thrown /\ o.ok /\ o.success THEN [p EXCEPT !.detections = o.detections]
    ELSE p

Attempt(pc) == [id |-> attempts + 1, pc |-> pc]

\* the effect at mount: if (autoConnect) connectToCamera()
PlayerMount ==
    /\ mounted = "init"
    /\ mounted' = "mounted"
    /\ IF autoConnect
       THEN /\ player' = connectHead(player)
            /\ connects' = connects \cup {Attempt("status")}
            /\ attempts' = attempts + 1
       ELSE UNCHANGED <<player, connects, attempts>>
    /\ UNCHANGED autoConnect

\* a click on Riconnetti (shown with an error) or on Connetti (shown while not
\* connected, disabled while loading)
ConnectClick ==
    /\ mounted = "mounted"
    /\ player.error # Null \/ (~player.isConnected /\ ~player.isLoading)
    /\ attempts < MaxConnects
    /\ player' = connectHead(player)
    /\ connects' = connects \cup {Attempt("status")}
    /\ attempts' = attempts + 1
    /\ UNCHANGED <<mounted, autoConnect>>

\* a rejected await ends the call in its catch and finally blocks
ConnectFails(c, message) ==
    /\ player' = Commit(player, connectCatch(player, message))
    /\ connects' = connects \ {c}

ConnectMoves(c, pc) ==
    /\ connects' = (connects \ {c}) \cup {[c EXCEPT !.pc = pc]}
    /\ UNCHANGED player

\* GET /api/viam/status answers
StatusSettle(c, o) ==
    /\ c.pc = "status"
    /\ IF o.thrown THEN ConnectFails(c, o.message)
       ELSE IF o.connected THEN ConnectMoves(c, "cameras")
       ELSE ConnectMoves(c, "connect")
    /\ UNCHANGED <<mounted, autoConnect, attempts>>

\* POST /api/viam/connect answers
ConnectSettle(c, o) ==
    /\ c.pc = "connect"
    /\ IF o.thrown THEN ConnectFails(c, o.message)
       ELSE IF ~o.ok THEN ConnectFails(c, "Failed to connect to VIAM robot")
       ELSE ConnectMoves(c, "cameras")
    /\ UNCHANGED <<mounted, autoConnect, attempts>>

\* GET /api/viam/cameras answers: the call runs to its end
CamerasSettle(c, o) ==
    /\ c.pc = "cameras"
    /\ IF o.thrown THEN ConnectFails(c, o.message)
       ELSE /\ player' = Commit(player, connectTail(player, o))
            /\ connects' = connects \ {c}
    /\ UNCHANGED <<mounted, autoConnect, attempts>>

SettleStatus == \E c \in connects : \E o \in StatusOutcomes : StatusSettle(c, o)
SettleConnect == \E c \in connects : \E o \in ConnectOutcomes : ConnectSettle(c, o)
SettleCameras == \E c \in connects : \E o \in CamerasOutcomes : CamerasSettle(c, o)

\* an open EventSource delivers an event
StreamMessage ==
    \E src \in player.sources : \E data \in Payloads :
        /\ player' = Commit(player, onmessage(player, data))
        /\ UNCHANGED <<mounted, autoConnect, connects, attempts>>

\* an open EventSource delivers a frame
FrameArrives ==
    \E src \in player.sources : \E data \in Payloads :
        /\ ~data.malformed /\ data.error = Null
        /\ player' = Commit(player, onmessage(player, data))
        /\ UNCHANGED <<mounted, autoConnect, connects, attempts>>

\* an open EventSource reports an error: the browser keeps it open and
\* retries, or has closed it for good
StreamError ==
    \E src \in player.sources : \E closed \in BOOLEAN :
        /\ player' = [Commit(player, onerror(player)) EXCEPT
                         !.sources = IF closed THEN @ \ {src} ELSE @]
        /\ UNCHANGED <<mounted, autoConnect, connects, attempts>>

\* a click on Stop (shown while connected)
DisconnectClick ==
    /\ mounted = "mounted"
    /\ player.isConnected
    /\ player' = disconnect(player)
    /\ UNCHANGED <<mounted, autoConnect, connects, attempts>>

\* a click on Snapshot (shown while connected): captureSnapshot up to its await
SnapshotClick ==
    /\ mounted = "mounted"
    /\ player.isConnected
    /\ "snapshot" \notin player.requests
    /\ player' = [player EXCEPT !.requests = @ \cup {"snapshot"}]
    /\ UNCHANGED <<mounted, autoConnect, connects, attempts>>

\* a click on Rileva (shown while connected): getDetections up to its await
DetectionsClick ==
    /\ mounted = "mounted"
    /\ player.isConnected
    /\ "detections" \notin player.requests
    /\ player' = [player EXCEPT !.requests = @ \cup {"detections"}]
    /\ UNCHANGED <<mounted, autoConnect, connects, attempts>>

\* the image request answers
SettleSnapshot ==
    /\ "snapshot" \in player.requests
    /\ \E o \in SnapshotOutcomes :
            player' = [Commit(player, captureSnapshot(player, o)) EXCEPT
                          !.requests = @ \ {"snapshot"}]
    /\ UNCHANGED <<mounted, autoConnect, connects, attempts>>

\* the detections request answers
SettleDetections ==
    /\ "detections" \in player.requests
    /\ \E o \in DetectionsOutcomes :
            player' = [Commit(player, getDetections(player, o)) EXCEPT
                          !.requests = @ \ {"detections"}]
    /\ UNCHANGED <<mounted, autoConnect, connects, attempts>>

\* the effect's cleanup at unmount
PlayerUnmount ==
    /\ mounted = "mounted"
    /\ mounted' = "unmounted"
    /\ player' = disconnect(player)
    /\ UNCHANGED <<autoConnect, connects, attempts>>

PlayerInit ==
    /\ mounted = "init"
    /\ autoConnect \in BOOLEAN
    /\ player = initialPlayer
    /\ connects = {}
    /\ attempts = 0
    /\ peer = initialPlayer

PlayerNext ==
    \/ PlayerMount /\ UNCHANGED <<storeVars, peer>>
    \/ ConnectClick /\ UNCHANGED <<storeVars, peer>>
    \/ SettleStatus /\ UNCHANGED <<storeVars, peer>>
    \/ SettleConnect /\ UNCHANGED <<storeVars, peer>>
    \/ SettleCameras /\ UNCHANGED <<storeVars, peer>>
    \/ StreamMessage /\ UNCHANGED <<storeVars, peer>>
    \/ StreamError /\ UNCHANGED <<storeVars, peer>>
    \/ DisconnectClick /\ UNCHANGED <<storeVars, peer>>
    \/ SnapshotClick /\ UNCHANGED <<storeVars, peer>>
    \/ DetectionsClick /\ UNCHANGED <<storeVars, peer>>
    \/ SettleSnapshot /\ UNCHANGED <<storeVars, peer>>
    \/ SettleDetections /\ UNCHANGED <<storeVars, peer>>
    \/ PlayerUnmount /\ UNCHANGED <<storeVars, peer>>

-----------------------------------------------------------------------------
(* The two subsystems share no state: each is checked on its own *)

Init == StoreInit /\ PlayerInit /\ autoConnect

Spec == Init /\ [][Next]_vars

\* the player alone, with or without autoConnect; the store is never mounted
PlayerOnlyInit == StoreInit /\ PlayerInit

PlayerSpec == PlayerOnlyInit /\ [][PlayerNext]_vars

\* fair delivery: every awaited response arrives (with whatever result), and
\* an open live feed goes on delivering frames
PlayerFairness ==
    /\ WF_vars(SettleStatus /\ UNCHANGED <<storeVars, peer>>)
    /\ WF_vars(SettleConnect /\ UNCHANGED <<storeVars, peer>>)
    /\ WF_vars(SettleCameras /\ UNCHANGED <<storeVars, peer>>)
    /\ WF_vars(FrameArrives /\ UNCHANGED <<storeVars, peer>>)

PlayerFairSpec == PlayerOnlyInit /\ [][PlayerNext]_vars /\ PlayerFairness

-----------------------------------------------------------------------------
(* surveillanceReducer on its own: every command applied to a range of      *)
(* snapshots                                                                *)

actionTypes ==
    {"SET_LOADING", "SET_ERROR", "CLEAR_ERROR", "SET_OVERVIEW", "SET_TOWERS",
     "SET_CAMERAS", "SET_ALARMS", "ADD_ALARM", "UPDATE_ALARM", "UPDATE_TOWER",
     "UPDATE_CAMERA", "SET_CONNECTION_STATUS"}

\* a type the switch has no case for
UnknownType == "RESET"

Messages == {"db unreachable", "Failed to fetch"}

\* the payloads a command of each type is dispatched with
CommandPayloads(type) ==
    CASE type = "SET_LOADING" -> {[key |-> k, value |-> v] : k \in Keys, v \in BOOLEAN}
      [] type = "SET_ERROR" -> {[key |-> k, error |-> e] : k \in Keys, e \in Messages}
      [] type = "CLEAR_ERROR" -> {[key |-> k] : k \in Keys}
      [] type = "SET_OVERVIEW" -> Overviews
      [] type = "SET_TOWERS" -> {<<>>} \cup TowerLists
      [] type = "SET_CAMERAS" -> {<<>>} \cup CameraLists
      [] type = "SET_ALARMS" -> {<<>>} \cup AlarmLists
      [] type = "ADD_ALARM" -> {Alarm("a3", "active"), Alarm("a1", "active")}
      [] type = "UPDATE_ALARM" ->
            {[id |-> i, status |-> st] :
                i \in AlarmIds \cup {"a9"}, st \in {"acknowledged", "resolved"}}
      [] type = "UPDATE_TOWER" -> {[id |-> i, name |-> "C"] : i \in TowerIds \cup {"t9"}}
      [] type = "UPDATE_CAMERA" ->
            {[id |-> i, status |-> "offline", fps |-> 15] : i \in CameraIds \cup {"c9"}}
      [] type = "SET_CONNECTION_STATUS" -> {"connected", "disconnected"}
      [] OTHER -> {Null}

CommandsOf(type) == {Cmd(type, p) : p \in CommandPayloads(type)}

CommandTypes == actionTypes \cup {UnknownType}

\* snapshots the store passes through: each collection empty or loaded, the
\* overview as constructed or loaded at some time, some loading flags up, some
\* errors recorded
Snapshots ==
    {[overview |-> o.data, towers |-> t, cameras |-> c, alarms |-> a,
      loading |-> l, errors |-> e, lastUpdate |-> o.at, connectionStatus |-> cs] :
        o \in {[data |-> initialState.overview, at |-> NoTime]}
               \cup {[data |-> d, at |-> u] : d \in Overviews, u \in 1..MaxClock},
        t \in {<<>>} \cup TowerLists,
        c \in {<<>>} \cup CameraLists,
        a \in {<<>>} \cup AlarmLists,
        l \in {[k \in Keys |-> FALSE], [k \in Keys |-> k \in {"overview", "alarms"}],
               [k \in Keys |-> TRUE]},
        e \in {NoErrors, SetKey(NoErrors, "towers", "db unreachable"),
               SetKey(SetKey(NoErrors, "towers", "Failed to fetch"),
                      "alarms", "Failed to acknowledge alarm")},
        cs \in {"connected", "disconnected"}}

\* what new Date() can return while a command of the type is reduced
Now(type) ==
    IF type = "SET_OVERVIEW" THEN {t \in {clock, clock + 1} : t <= MaxClock} ELSE {clock}

\* dispatch(command): the store's snapshot becomes the reducer's result
dispatch(a, now) ==
    /\ state \in Snapshots
    /\ state' = surveillanceReducer(state, a, now)
    /\ clock' = now
    /\ UNCHANGED <<view, refreshTimer, healthTimer, nextId, fetches, settled,
                   mutations, probes, outcome, playerVars, peer>>

Dispatch_SET_LOADING ==
    \E a \in CommandsOf("SET_LOADING") : \E now \in Now("SET_LOADING") : dispatch(a, now)

Dispatch_SET_ERROR ==
    \E a \in CommandsOf("SET_ERROR") : \E now \in Now("SET_ERROR") : dispatch(a, now)

Dispatch_CLEAR_ERROR ==
    \E a \in CommandsOf("CLEAR_ERROR") : \E now \in Now("CLEAR_ERROR") : dispatch(a, now)

Dispatch_SET_OVERVIEW ==
    \E a \in CommandsOf("SET_OVERVIEW") : \E now \in Now("SET_OVERVIEW") : dispatch(a, now)

Dispatch_SET_TOWERS ==
    \E a \in CommandsOf("SET_TOWERS") : \E now \in Now("SET_TOWERS") : dispatch(a, now)

Dispatch_SET_CAMERAS ==
    \E a \in CommandsOf("SET_CAMERAS") : \E now \in Now("SET_CAMERAS") : dispatch(a, now)

Dispatch_SET_ALARMS ==
    \E a \in CommandsOf("SET_ALARMS") : \E now \in Now("SET_ALARMS") : dispatch(a, now)

Dispatch_ADD_ALARM ==
    \E a \in CommandsOf("ADD_ALARM") : \E now \in Now("ADD_ALARM") : dispatch(a, now)

Dispatch_UPDATE_ALARM ==
    \E a \in CommandsOf("UPDATE_ALARM") : \E now \in Now("UPDATE_ALARM") : dispatch(a, now)

Dispatch_UPDATE_TOWER ==
    \E a \in CommandsOf("UPDATE_TOWER") : \E now \in Now("UPDATE_TOWER") : dispatch(a, now)

Dispatch_UPDATE_CAMERA ==
    \E a \in CommandsOf("UPDATE_CAMERA") : \E now \in Now("UPDATE_CAMERA") : dispatch(a, now)

Dispatch_SET_CONNECTION_STATUS ==
    \E a \in CommandsOf("SET_CONNECTION_STATUS") : \E now \in Now("SET_CONNECTION_STATUS") : dispatch(a, now)

Dispatch_default ==
    \E a \in CommandsOf(UnknownType) : \E now \in Now(UnknownType) : dispatch(a, now)


ReducerInit ==
    /\ state \in Snapshots
    /\ clock \in 1..MaxClock
    /\ state.lastUpdate <= clock
    /\ view = "init"
    /\ refreshTimer = FALSE
    /\ healthTimer = FALSE
    /\ nextId = 1
    /\ fetches = {}
    /\ settled = [k \in Keys |-> <<>>]
    /\ mutations = {}
    /\ probes = {}
    /\ outcome = NoOutcome
    /\ mounted = "init"
    /\ autoConnect = FALSE
    /\ player = initialPlayer
    /\ connects = {}
    /\ attempts = 0
    /\ peer = initialPlayer

ReducerNext ==
    \/ Dispatch_SET_LOADING
    \/ Dispatch_SET_ERROR
    \/ Dispatch_CLEAR_ERROR
    \/ Dispatch_SET_OVERVIEW
    \/ Dispatch_SET_TOWERS
    \/ Dispatch_SET_CAMERAS
    \/ Dispatch_SET_ALARMS
    \/ Dispatch_ADD_ALARM
    \/ Dispatch_UPDATE_ALARM
    \/ Dispatch_UPDATE_TOWER
    \/ Dispatch_UPDATE_CAMERA
    \/ Dispatch_SET_CONNECTION_STATUS
    \/ Dispatch_default

ReducerSpec == ReducerInit /\ [][ReducerNext]_vars

-----------------------------------------------------------------------------
(* Two ViamVideoPlayer instances, for two cameras, side by side: each has   *)
(* its own hook state and its own eventSourceRef                            *)

LiveSession ==
    connectTail(connectHead(initialPlayer),
                [thrown |-> FALSE, ok |-> TRUE, found |-> TRUE,
                 camera |-> [name |-> "cam", stream_url |-> "url"]])

\* a session before, during and after a successful connect, without and with
\* a frame shown
Sessions ==
    {initialPlayer,
     connectHead(initialPlayer),
     LiveSession,
     onmessage(LiveSession, [malformed |-> FALSE, error |-> Null, image |-> "img1",
                             detections |-> <<[class_name |-> "person", confidence |-> 1]>>])}

\* the messages connectToCamera's catch block can be given
ConnectFailures == {"Failed to fetch", "Failed to connect to VIAM robot"}

\* the session after an event of its live feed
StreamEvents(p) ==
    IF p.sources = {} THEN {} ELSE {onmessage(p, data) : data \in Payloads}

\* the session after its EventSource reported an error (and stays open, or is
\* closed by the browser)
ErrorEvents(p) ==
    UNION {{onerror(p), [onerror(p) EXCEPT !.sources = @ \ {src}]} : src \in p.sources}

\* the session after a connect attempt in progress has failed
FailureEvents(p) ==
    IF p.isLoading THEN {connectCatch(p, m) : m \in ConnectFailures} ELSE {}

Paired == player \in Sessions /\ peer \in Sessions

OwnStreamMessage ==
    /\ Paired
    /\ \E after \in StreamEvents(player) : player' = after
    /\ UNCHANGED <<storeVars, mounted, autoConnect, connects, attempts, peer>>

OwnStreamError ==
    /\ Paired
    /\ \E after \in ErrorEvents(player) : player' = after
    /\ UNCHANGED <<storeVars, mounted, autoConnect, connects, attempts, peer>>

OwnConnectFails ==
    /\ Paired
    /\ \E after \in FailureEvents(player) : player' = after
    /\ UNCHANGED <<storeVars, mounted, autoConnect, connects, attempts, peer>>

PeerStreamMessage ==
    /\ Paired
    /\ \E after \in StreamEvents(peer) : peer' = after
    /\ UNCHANGED <<storeVars, playerVars>>

\* mutant: the two instances share one EventSource slot, so an error on one
\* feed takes the other session down too
PeerStreamErrorShared ==
    /\ Paired
    /\ \E after \in ErrorEvents(peer) : peer' = after
    /\ player' = onerror(player)
    /\ UNCHANGED <<storeVars, mounted, autoConnect, connects, attempts>>

PeerStreamError ==
    /\ Paired
    /\ \E after \in ErrorEvents(peer) : peer' = after
    /\ UNCHANGED <<storeVars, playerVars>>

PeerConnectFails ==
    /\ Paired
    /\ \E after \in FailureEvents(peer) : peer' = after
    /\ UNCHANGED <<storeVars, playerVars>>

SessionsInit ==
    /\ state = initialState
    /\ clock = 1
    /\ view = "init"
    /\ refreshTimer = FALSE
    /\ healthTimer = FALSE
    /\ nextId = 1
    /\ fetches = {}
    /\ settled = [k \in Keys |-> <<>>]
    /\ mutations = {}
    /\ probes = {}
    /\ outcome = NoOutcome
    /\ mounted = "mounted"
    /\ autoConnect = TRUE
    /\ connects = {}
    /\ attempts = 0
    /\ player \in Sessions
    /\ peer \in Sessions

SessionsNext ==
    \/ OwnStreamMessage
    \/ OwnStreamError
    \/ OwnConnectFails
    \/ PeerStreamMessage
    \/ PeerStreamError
    \/ PeerConnectFails

SessionsSpec == SessionsInit /\ [][SessionsNext]_vars

-----------------------------------------------------------------------------
(* Vocabulary of the properties *)

InFlight(key) == {f \in fetches : f.key = key}

Collection(s, key) ==
    CASE key = "overview" -> s.overview
      [] key = "towers" -> s.towers
      [] key = "cameras" -> s.cameras
      [] key = "alarms" -> s.alarms

HasError(s, key) == key \in DOMAIN s.errors

\* the three ways a response can fail, and a successful one
Succeeds(h) == h.net /\ h.ok /\ h.body.success
Fails(h) == ~Succeeds(h)

\* the message the caller is told for a failed exchange: the transport's, else
\* the backend's reason, else the given fallback text
ReasonOf(h, fallback) ==
    IF ~h.net THEN h.message
    ELSE IF "error" \in DOMAIN h.body THEN h.body.error
    ELSE fallback

-----------------------------------------------------------------------------
(* C1: every resource key that has an entry in errors has loading[key] =   *)
(* false, in every reachable state of the store.                           *)
C1_ErrorImpliesNotLoading ==
    \A k \in Keys : HasError(state, k) => state.loading[k] = FALSE

(* C2: with no fetch for a key in flight its loading flag is false, and    *)
(* every fetch that settles leaves the flag of its key false.              *)
C2_LoadingOnlyWhileInFlight ==
    /\ [](\A k \in Keys : InFlight(k) = {} => state.loading[k] = FALSE)
    /\ [][\A f \in fetches : f \notin fetches' => state'.loading[f.key] = FALSE]_vars

C2_Witness ==
    /\ settled["towers"] = <<2>>
    /\ HasError(state, "towers")
    /\ InFlight("towers") = {}
    /\ state.loading["towers"] = FALSE
    /\ InFlight("alarms") # {}
    /\ state.loading["alarms"] = TRUE

(* C3: after a fetch for key K settles with success:true, errors[K] is     *)
(* absent, even if an error had been recorded for K before: whatever fetch *)
(* is in flight, its continuation on a success:true response leaves no     *)
(* errors entry for its key.                                               *)
C3_SuccessClearsError ==
    \A f \in fetches : \A h \in HttpOutcomes(DataFor(f.key)) :
        Succeeds(h) => ~HasError(FetchResume(state, f.key, request(h), clock), f.key)

(* C4: under acknowledgeAlarm, resolveAlarm and UpdateAlarm an alarm's     *)
(* status only moves active -> acknowledged -> resolved, one step at a     *)
(* time and never backwards.                                               *)
Permitted(from, to) ==
    \/ to = from
    \/ from = "active" /\ to = "acknowledged"
    \/ from = "acknowledged" /\ to = "resolved"

C4_AlarmStatusOrder ==
    [][SettleMutation =>
          \A i \in DOMAIN state.alarms : \A j \in DOMAIN state'.alarms :
              state.alarms[i].id = state'.alarms[j].id
                  => Permitted(state.alarms[i].status, state'.alarms[j].status)]_vars

(* C5: fetches of one key are applied in settlement order: whatever fetch *)
(* is still in flight, and whichever fetches of its key issued after it    *)
(* have settled already, its success leaves its own payload in the store.  *)
C5_LastSettledWins ==
    \A f \in fetches : \A h \in HttpOutcomes(DataFor(f.key)) :
        Succeeds(h) =>
            Collection(FetchResume(state, f.key, request(h), clock), f.key) = h.body.data

\* the refresh issued after the initial overview fetch settled first, the
\* initial one last, both with success
C5_Witness ==
    /\ settled["overview"] = <<6, 1>>
    /\ ~HasError(state, "overview")
    /\ state.overview \in Overviews

(* C6: a fetch first sets loading[key]; a success:true response puts the   *)
(* response data in the store; a success:false response or a transport     *)
(* failure records errors[key] = the backend's reason (or the fallback     *)
(* text), keeps the collection and leaves loading[key] false.              *)
C6_Fallback(key) ==
    CASE key = "overview" -> "Failed to fetch overview"
      [] key = "towers" -> "Failed to fetch towers"
      [] key = "cameras" -> "Failed to fetch cameras"
      [] key = "alarms" -> "Failed to fetch alarms"

C6_FetchProtocol ==
    /\ \A k \in Keys : FetchCall(state, k).loading[k] = TRUE
    /\ \A f \in fetches : \A h \in HttpOutcomes(DataFor(f.key)) :
          LET after == FetchResume(state, f.key, request(h), clock)
          IN  /\ after.loading[f.key] = FALSE
              /\ IF Succeeds(h)
                 THEN Collection(after, f.key) = h.body.data
                 ELSE /\ HasError(after, f.key)
                      /\ after.errors[f.key] = ReasonOf(h, C6_Fallback(f.key))
                      /\ Collection(after, f.key) = Collection(state, f.key)

\* the failed tower fetch of the scenario
C6_Witness ==
    /\ settled["towers"] = <<2>>
    /\ HasError(state, "towers")
    /\ state.errors["towers"] = "db unreachable"
    /\ state.loading["towers"] = FALSE
    /\ state.towers = <<>>

(* C7: a mutation whose response has success:false, or whose request       *)
(* throws, rejects to its caller with the message, records that message as *)
(* errors[key] of the owning key, and leaves the owning collection as it   *)
(* was.                                                                    *)
C7_Owner(op) ==
    CASE op = "createTower" -> "towers"
      [] op = "updateTower" -> "towers"
      [] op = "createCamera" -> "cameras"
      [] op = "acknowledgeAlarm" -> "alarms"
      [] op = "resolveAlarm" -> "alarms"

C7_Fallback(op) ==
    CASE op = "createTower" -> "Failed to create tower"
      [] op = "updateTower" -> "Failed to update tower"
      [] op = "createCamera" -> "Failed to create camera"
      [] op = "acknowledgeAlarm" -> "Failed to acknowledge alarm"
      [] op = "resolveAlarm" -> "Failed to resolve alarm"

C7_MutationFailureContract ==
    \A m \in mutations : \A h \in HttpOutcomes(MutationData(m)) :
        (m.phase = "api" /\ Fails(h)) =>
            LET after == MutationResume(state, m, request(h))
            IN  /\ MutationOutcome(m, request(h)) =
                        [op |-> m.op, result |-> "thrown",
                         message |-> ReasonOf(h, C7_Fallback(m.op))]
                /\ HasError(after, C7_Owner(m.op))
                /\ after.errors[C7_Owner(m.op)] = ReasonOf(h, C7_Fallback(m.op))
                /\ Collection(after, C7_Owner(m.op)) = Collection(state, C7_Owner(m.op))

C7_Witness ==
    /\ outcome.op = "resolveAlarm"
    /\ outcome.result = "thrown"
    /\ outcome.message = "Failed to resolve alarm"
    /\ HasError(state, "alarms")
    /\ state.errors["alarms"] = "Failed to resolve alarm"
    /\ state.alarms \in AlarmLists

(* C8: once teardown has been requested the session's stream connection   *)
(* is closed and none is opened or left open afterwards, also when the     *)
(* teardown arrives while connectToCamera is still awaiting a response.    *)
C8_ClosedAfterTeardown ==
    mounted = "unmounted" => player.sources = {} /\ player.eventSourceRef = 0

(* C9: a stream session never reconnects on its own. A connect attempt is  *)
(* started only by the session start or by a click on connect/reconnect,   *)
(* an EventSource is created only at the end of such an attempt, and a     *)
(* session that a transport-level stream error has put in Error leaves     *)
(* Error only by such a click.                                             *)
C9_NoAutoReconnect ==
    [][/\ attempts' # attempts => (PlayerMount \/ ConnectClick)
       /\ player'.created # player.created =>
              \E c \in connects \ connects' : c.pc = "cameras"
       /\ (player.error = "Live feed connection lost" /\ player'.error = Null)
              => ConnectClick]_vars

(* C10, as stated: once the view is stopped no handler of the scheduler or *)
(* of the monitor dispatches into the store.                               *)
C10_NoCommandAfterStop ==
    [][view = "stopped" => ~(SettleFetch \/ SettleProbe \/ RefreshTick)]_vars

(* C10, amended: once the view is stopped no timer starts a fetch or a     *)
(* probe; the store changes only when a request that was in flight at      *)
(* teardown settles, and a fetch is started only as the refetch of a       *)
(* create call that was in flight at teardown.                             *)
C10_OnlyInFlightAfterStop ==
    [][view = "stopped" =>
          /\ probes' \subseteq probes
          /\ \A f \in fetches' \ fetches : \E m \in mutations : f.waiter = m.id
          /\ state' # state =>
                \/ fetches \ fetches' # {}
                \/ probes \ probes' # {}
                \/ mutations \ mutations' # {}]_vars

\* a refetch awaited by createTower lands after the view was stopped
C10_Witness ==
    /\ view = "stopped"
    /\ outcome.op = "createTower"
    /\ outcome.result = "returned"
    /\ settled["towers"] = <<2, 7>>

(* C11: on stop both periodic tasks are cancelled: once the view is        *)
(* stopped neither interval is live, and no step starts an overview fetch  *)
(* or a health probe.                                                      *)
C11_TimersCancelled ==
    /\ [](view = "stopped" => ~refreshTimer /\ ~healthTimer)
    /\ [][view = "stopped" =>
              /\ probes' \subseteq probes
              /\ \A f \in fetches' \ fetches : f.key # "overview"]_vars

\* stopped and quiet, with a request still within the bound: it is the
\* cancellation, not the bound, that keeps the timers from firing
C11_Witness ==
    /\ view = "stopped"
    /\ nextId <= MaxRequests
    /\ fetches = {} /\ probes = {} /\ mutations = {}
    /\ settled["overview"] = <<1>>

(* C12: the mount issues exactly one fetch for each of overview, towers,   *)
(* cameras and alarms and one health probe; a tick of the 30 s timer       *)
(* issues one overview fetch and nothing else, a tick of the 10 s timer    *)
(* one health probe and nothing else, each enabled by its own timer.       *)
C12_StartThenPeriodic ==
    [][/\ Mount =>
              /\ \A k \in Keys : Cardinality({f \in fetches' \ fetches : f.key = k}) = 1
              /\ Cardinality(probes' \ probes) = 1
       /\ RefreshTick =>
              /\ \E f \in fetches' \ fetches :
                    f.key = "overview" /\ fetches' = fetches \cup {f}
              /\ probes' = probes
       /\ HealthTick =>
              /\ fetches' = fetches
              /\ Cardinality(probes' \ probes) = 1]_vars

\* after the mount and one tick of the refresh timer: two overview fetches,
\* one fetch of each other key and the first probe are in flight
C12_Witness ==
    /\ view = "running"
    /\ {f.id : f \in InFlight("overview")} = {1, 6}
    /\ \A k \in Keys \ {"overview"} : Cardinality(InFlight(k)) = 1
    /\ probes = {[id |-> 5]}

(* C13: a disconnect leaves the session in Idle. The Stop button leaves    *)
(* the stream closed and the handle released, no frame, no detections, not *)
(* connected and no error; the teardown, after which the hook state is     *)
(* gone, leaves the stream closed and the handle released.                 *)
C13_DisconnectReturnsToIdle ==
    [][/\ (DisconnectClick \/ PlayerUnmount) =>
              /\ player'.sources = {}
              /\ player'.eventSourceRef = 0
       /\ DisconnectClick =>
              /\ player'.currentImage = Null
              /\ player'.detections = <<>>
              /\ ~player'.isConnected
              /\ player'.error = Null]_vars

(* C14: an {error} payload delivered to a Live session leaves the session  *)
(* with exactly that message as its error, with the frame, the detections  *)
(* and the connected flag it had, and with the stream still open.          *)
C14_ErrorPayloadKeepsSession ==
    (mounted = "mounted" /\ player.isConnected /\ player.error = Null
        /\ player.sources # {}) =>
        \A data \in Payloads :
            (~data.malformed /\ data.error # Null) =>
                LET after == Commit(player, onmessage(player, data))
                IN  /\ after.error = data.error
                    /\ after.currentImage = player.currentImage
                    /\ after.detections = player.detections
                    /\ after.isConnected = player.isConnected
                    /\ after.sources = player.sources
                    /\ after.eventSourceRef = player.eventSourceRef

\* the scenario: "decode failure" with the last good frame retained
C14_Witness ==
    /\ mounted = "mounted"
    /\ player.isConnected
    /\ player.error = "decode failure"
    /\ player.currentImage = "img1"
    /\ player.detections # <<>>
    /\ player.eventSourceRef \in player.sources

(* C15: an {image, detections} payload becomes the frame and the detection *)
(* set and clears the error; a payload that cannot be parsed changes no    *)
(* field of the session.                                                   *)
C15_FramePayload ==
    mounted = "mounted" =>
        \A data \in Payloads :
            LET after == Commit(player, onmessage(player, data))
            IN  IF data.malformed THEN after = player
                ELSE data.error = Null =>
                        /\ after.currentImage = data.image
                        /\ after.detections = data.detections
                        /\ after.error = Null
                        /\ after.isConnected = player.isConnected

\* a second frame, with detections, shown by a connected session
C15_Witness ==
    /\ mounted = "mounted"
    /\ player.isConnected
    /\ player.error = Null
    /\ player.currentImage = "img2"
    /\ player.detections # <<>>
    /\ player.sources # {}

(* C16: a transport-level stream error puts the session in Error with      *)
(* 'Live feed connection lost' and marks it disconnected, and the session  *)
(* then stays in Error until a click on connect/reconnect.                 *)
C16_TransportErrorSticks ==
    [][/\ (mounted = "mounted" /\ StreamError) =>
              /\ player'.error = "Live feed connection lost"
              /\ ~player'.isConnected
       /\ player.error = "Live feed connection lost" =>
              (player'.error # Null \/ ConnectClick)]_vars

(* C17: a connect that fails at the status query, at the gateway connect   *)
(* or at the camera metadata ends with the session in Error, not marked    *)
(* connected, and with no EventSource created.                             *)
C17_FailedConnectOpensNothing ==
    [][mounted = "mounted" =>
          \A c \in connects :
              /\ \A o \in StatusOutcomes :
                    (StatusSettle(c, o) /\ o.thrown) =>
                        /\ player'.error # Null /\ ~player'.isConnected
                        /\ player'.created = player.created
              /\ \A o \in ConnectOutcomes :
                    (ConnectSettle(c, o) /\ (o.thrown \/ ~o.ok)) =>
                        /\ player'.error # Null /\ ~player'.isConnected
                        /\ player'.created = player.created
              /\ \A o \in CamerasOutcomes :
                    (CamerasSettle(c, o) /\ (o.thrown \/ ~o.ok \/ ~o.found)) =>
                        /\ player'.error # Null /\ ~player'.isConnected
                        /\ player'.created = player.created]_vars

(* C19: a session never has two EventSources open: the only one that can   *)
(* be open is the one its ref holds.                                       *)
C19_SingleStream ==
    /\ Cardinality(player.sources) <= 1
    /\ player.sources \subseteq {player.eventSourceRef}

\* the second connect call is still awaiting while the first and the third
\* have each opened a stream: the third closed the first one's
C19_Witness ==
    /\ \E c \in connects : c.id = 2
    /\ player.created = 2
    /\ player.sources = {2}

(* C18: a click on reconnect from Error sets loading, clears the error and *)
(* starts a connect call; and under fair delivery a session with a connect *)
(* call under way eventually is Live (connected, a frame shown, no error), *)
(* unless a response or an event reports a failure, the user stops the     *)
(* session or the component is torn down.                                  *)
Live ==
    /\ mounted = "mounted"
    /\ player.isConnected /\ ~player.isLoading
    /\ player.error = Null
    /\ player.currentImage # Null

Connecting == mounted = "mounted" /\ connects # {}

Failed == player.error # Null

Stopped == ~player.isConnected /\ player.eventSourceRef = 0 /\ connects = {}

C18_ReconnectReachesLive ==
    /\ [][(ConnectClick /\ player.error # Null) =>
              /\ player'.isLoading
              /\ player'.error = Null
              /\ connects' # {}]_vars
    /\ (Connecting ~> (Live \/ Failed \/ Stopped \/ mounted = "unmounted"))

\* Live again after a reconnect: the second connect call has opened the feed
C18_Witness ==
    /\ Live
    /\ attempts = 2
    /\ connects = {}
    /\ player.eventSourceRef \in player.sources

(* C20, vocabulary: the fields a call changes, and a collection patched at *)
(* one id with the fields of a payload.                                    *)
C20_Changed(m) ==
    IF m.op = "updateTower" THEN [name |-> "C"]
    ELSE IF m.op = "acknowledgeAlarm" THEN [status |-> "acknowledged"]
    ELSE [status |-> "resolved"]

C20_Patched(before, after, payload) ==
    /\ DOMAIN after = DOMAIN before
    /\ \A i \in DOMAIN before :
          IF before[i].id # payload.id THEN after[i] = before[i]
          ELSE /\ DOMAIN after[i] = DOMAIN before[i] \cup DOMAIN payload
               /\ \A f \in DOMAIN after[i] :
                     after[i][f] = IF f \in DOMAIN payload THEN payload[f]
                                   ELSE before[i][f]

C20_RestUnchanged(after, m) ==
    /\ \A k \in Keys \ {C7_Owner(m.op)} : Collection(after, k) = Collection(state, k)
    /\ after.loading = state.loading
    /\ after.errors = state.errors
    /\ after.connectionStatus = state.connectionStatus

(* C20, as stated: a successful updateTower, acknowledgeAlarm or           *)
(* resolveAlarm dispatches one Update* command that carries the target's   *)
(* id and only the changed fields; the entity with that id is patched in   *)
(* place and nothing else in the store changes.                            *)
C20_TargetedUpdate ==
    \A m \in mutations : \A h \in HttpOutcomes(MutationData(m)) :
        (m.phase = "api" /\ m.op \notin {"createTower", "createCamera"} /\ Succeeds(h)) =>
            LET cmd == UpdateCmd(m, h.body)
                after == MutationResume(state, m, request(h))
            IN  /\ cmd.payload.id = m.target
                /\ DOMAIN cmd.payload = {"id"} \cup DOMAIN C20_Changed(m)
                /\ \A f \in DOMAIN C20_Changed(m) : cmd.payload[f] = C20_Changed(m)[f]
                /\ C20_Patched(Collection(state, C7_Owner(m.op)),
                               Collection(after, C7_Owner(m.op)), cmd.payload)
                /\ C20_RestUnchanged(after, m)

(* C20, amended: the command of acknowledgeAlarm and resolveAlarm carries  *)
(* the target's id and the new status; the command of updateTower carries  *)
(* the data object of the response, whatever fields it has. The entity     *)
(* with the payload's id is patched with the payload's fields, nothing     *)
(* else in the store changes, and the call ends without starting a fetch.  *)
C20_UpdatePatchesTarget ==
    /\ [](\A m \in mutations : \A h \in HttpOutcomes(MutationData(m)) :
            (m.phase = "api" /\ m.op \notin {"createTower", "createCamera"}
                /\ Succeeds(h)) =>
                LET cmd == UpdateCmd(m, h.body)
                    after == MutationResume(state, m, request(h))
                IN  /\ cmd.payload = IF m.op = "updateTower" THEN h.body.data
                                     ELSE [id |-> m.target,
                                           status |-> C20_Changed(m).status]
                    /\ cmd.payload.id = m.target
                    /\ C20_Patched(Collection(state, C7_Owner(m.op)),
                                   Collection(after, C7_Owner(m.op)), cmd.payload)
                    /\ C20_RestUnchanged(after, m))
    /\ [][\A m \in mutations \ mutations' :
              m.op \notin {"createTower", "createCamera"} => fetches' = fetches]_vars

\* the round trip of the scenario: a2 acknowledged, a1 as it was
C20_Witness ==
    /\ outcome.op = "acknowledgeAlarm"
    /\ outcome.result = "returned"
    /\ state.alarms = <<Alarm("a2", "acknowledged"), Alarm("a1", "acknowledged")>>
    /\ ~HasError(state, "alarms")

-----------------------------------------------------------------------------
(* C21: when the backend accepts a createTower or createCamera, the store's *)
(* collection is not changed by the create response: the continuation only *)
(* starts a refetch of that collection (its loading flag goes up, a fetch   *)
(* awaited by the create call is in flight) and the call has not returned.  *)
(* The call returns in the step in which the refetch it awaits settles, and *)
(* in no other step.                                                        *)
C21_Awaited(m) == {f \in fetches : f.waiter = m.id /\ f.key = OwnerKey(m.op)}

C21_CreateRefetches ==
    /\ [](\A m \in mutations : \A h \in HttpOutcomes(MutationData(m)) :
            (m.phase = "api" /\ m.op \in Creates /\ Succeeds(h)) =>
                LET after == MutationResume(state, m, request(h))
                IN  /\ Collection(after, OwnerKey(m.op)) = Collection(state, OwnerKey(m.op))
                    /\ after.loading[OwnerKey(m.op)]
                    /\ MutationOutcome(m, request(h)) = NoOutcome)
    /\ [](\A m \in mutations :
            m.phase = "refetch" => m.op \in Creates /\ Cardinality(C21_Awaited(m)) = 1)
    /\ [][(outcome'.op \in Creates /\ outcome'.result = "returned") =>
              \E m \in mutations \ mutations' :
                  /\ m.phase = "refetch" /\ m.op = outcome'.op
                  /\ C21_Awaited(m) # {}
                  /\ C21_Awaited(m) \cap fetches' = {}]_vars

C21_Witness ==
    /\ view = "running"
    /\ outcome.op = "createCamera"
    /\ outcome.result = "returned"
    /\ state.cameras \in CameraLists
    /\ ~state.loading["cameras"]

(* C22: connectionStatus is written only by the health probe. When a probe  *)
(* settles it becomes "connected" exactly when the backend answered with    *)
(* success and "disconnected" on an unsuccessful answer or a transport      *)
(* failure; the continuation of a fetch or of a mutation leaves it alone,   *)
(* and it changes in no step other than the settling of a probe.            *)
C22_ProbeOnly ==
    /\ [](\A h \in HttpOutcomes({"healthy"}) :
            checkConnection(state, request(h)).connectionStatus =
                IF Succeeds(h) THEN "connected" ELSE "disconnected")
    /\ [](\A f \in fetches : \A h \in HttpOutcomes(DataFor(f.key)) :
            FetchResume(state, f.key, request(h), clock).connectionStatus =
                state.connectionStatus)
    /\ [](\A m \in mutations : \A h \in HttpOutcomes(MutationData(m)) :
            m.phase = "api" =>
                MutationResume(state, m, request(h)).connectionStatus =
                    state.connectionStatus)
    /\ [][state'.connectionStatus # state.connectionStatus =>
              /\ probes' \subseteq probes /\ probes' # probes
              /\ fetches' = fetches /\ mutations' = mutations]_vars

C22_Witness ==
    /\ state.connectionStatus = "connected"
    /\ HasError(state, "towers")
    /\ probes = {}

(* C23: a fetch or a mutation that fails for key K changes only errors[K]   *)
(* and loading[K]: every collection, the loading flags and error entries of *)
(* the other keys, the overview, lastUpdate and connectionStatus stay as    *)
(* they were, and a later successful fetch for another key still loads its  *)
(* data and clears its loading flag.                                        *)
C23_OnlyKey(before, after, K) ==
    /\ \A k \in Keys : Collection(after, k) = Collection(before, k)
    /\ after.lastUpdate = before.lastUpdate
    /\ after.connectionStatus = before.connectionStatus
    /\ \A k \in Keys \ {K} :
            /\ after.loading[k] = before.loading[k]
            /\ HasError(after, k) = HasError(before, k)
            /\ HasError(before, k) => after.errors[k] = before.errors[k]
    /\ HasError(after, K) /\ ~after.loading[K]

C23_OthersStillLoad(after, K) ==
    \A k \in Keys \ {K} : \A d \in DataFor(k) :
        LET h == [net |-> TRUE, ok |-> TRUE, body |-> [success |-> TRUE, data |-> d]]
            later == FetchResume(after, k, request(h), clock)
        IN  /\ Collection(later, k) = d
            /\ ~later.loading[k]
            /\ HasError(later, K)

C23_FailureIsolated ==
    /\ \A f \in fetches : \A h \in HttpOutcomes(DataFor(f.key)) :
            Fails(h) =>
                LET after == FetchResume(state, f.key, request(h), clock)
                IN  C23_OnlyKey(state, after, f.key) /\ C23_OthersStillLoad(after, f.key)
    /\ \A m \in mutations : \A h \in HttpOutcomes(MutationData(m)) :
            (m.phase = "api" /\ Fails(h)) =>
                LET after == MutationResume(state, m, request(h))
                IN  /\ C23_OnlyKey(state, after, OwnerKey(m.op))
                    /\ C23_OthersStillLoad(after, OwnerKey(m.op))

C23_Witness ==
    /\ HasError(state, "towers") /\ ~state.loading["towers"]
    /\ HasError(state, "alarms")
    /\ state.cameras \in CameraLists
    /\ state.loading["overview"]
    /\ state.towers = <<>>

-----------------------------------------------------------------------------
(* C24: for an alarm A whose id no alarm of the store carries, AddAlarm(A)  *)
(* puts A at the head of alarms, the list is one longer with the earlier    *)
(* alarms behind it in their old order, and overview.active_alarms_count    *)
(* is one higher.                                                           *)
C24_AddAlarmPrepends ==
    \A A \in CommandPayloads("ADD_ALARM") :
        (\A i \in DOMAIN state.alarms : state.alarms[i].id # A.id) =>
            LET after == surveillanceReducer(state, Cmd("ADD_ALARM", A), clock)
            IN  /\ Len(after.alarms) = Len(state.alarms) + 1
                /\ after.alarms[1] = A
                /\ \A i \in DOMAIN state.alarms : after.alarms[i + 1] = state.alarms[i]
                /\ after.overview.active_alarms_count =
                        state.overview.active_alarms_count + 1

C24_Witness ==
    /\ state \notin Snapshots
    /\ state.alarms = <<Alarm("a3", "active"), Alarm("a2", "active"),
                        Alarm("a1", "acknowledged")>>
    /\ state.overview.active_alarms_count = 3

(* C25: UpdateAlarm, UpdateTower and UpdateCamera shallow-merge the partial *)
(* into the entity whose id equals the partial's id (the partial's fields   *)
(* win, the entity's other fields stay) and leave every other entity, the   *)
(* order and the length of the collection as they were; when no entity has  *)
(* that id the collection is unchanged, and in no case is an error          *)
(* recorded.                                                                *)
C25_Merged(entity, partial, result) ==
    /\ DOMAIN result = DOMAIN entity \cup DOMAIN partial
    /\ \A f \in DOMAIN partial : result[f] = partial[f]
    /\ \A f \in DOMAIN entity \ DOMAIN partial : result[f] = entity[f]

C25_Update(type, key) ==
    \A partial \in CommandPayloads(type) :
        LET afterState == surveillanceReducer(state, Cmd(type, partial), clock)
            before == Collection(state, key)
            after == Collection(afterState, key)
        IN  /\ Len(after) = Len(before)
            /\ \A i \in DOMAIN before :
                    IF before[i].id = partial.id
                    THEN C25_Merged(before[i], partial, after[i])
                    ELSE after[i] = before[i]
            /\ (\A i \in DOMAIN before : before[i].id # partial.id) => after = before
            /\ afterState.errors = state.errors
            /\ afterState = [state EXCEPT ![key] = after]

C25_UpdateMerges ==
    /\ C25_Update("UPDATE_ALARM", "alarms")
    /\ C25_Update("UPDATE_TOWER", "towers")
    /\ C25_Update("UPDATE_CAMERA", "cameras")

C25_Witness ==
    /\ state \notin Snapshots
    /\ state.cameras = <<Camera("c2", "online"),
                         [id |-> "c1", status |-> "offline", fps |-> 15]>>
    /\ state.errors = NoErrors

(* C26: SetTowers(L), SetCameras(L) and SetAlarms(L) replace the collection *)
(* by L whatever it held and clear the matching loading flag, and applying  *)
(* the same command a second time gives the same snapshot as applying it    *)
(* once.                                                                    *)
C26_Set(type, key) ==
    \A L \in CommandPayloads(type) :
        LET once == surveillanceReducer(state, Cmd(type, L), clock)
            twice == surveillanceReducer(once, Cmd(type, L), clock)
        IN  /\ Collection(once, key) = L
            /\ ~once.loading[key]
            /\ once = [state EXCEPT ![key] = L, !.loading[key] = FALSE]
            /\ twice = once

C26_SetReplaces ==
    /\ C26_Set("SET_TOWERS", "towers")
    /\ C26_Set("SET_CAMERAS", "cameras")
    /\ C26_Set("SET_ALARMS", "alarms")

C26_Witness ==
    /\ state \notin Snapshots
    /\ state.alarms = <<Alarm("a2", "active"), Alarm("a1", "acknowledged")>>
    /\ ~state.loading["alarms"]
    /\ state.loading["overview"]

(* C27: after SetError(key, msg), loading[key] is false and errors[key] is  *)
(* msg, whatever message was recorded for the key before.                   *)
C27_SetErrorRecords ==
    \A p \in CommandPayloads("SET_ERROR") :
        LET after == surveillanceReducer(state, Cmd("SET_ERROR", p), clock)
        IN  /\ ~after.loading[p.key]
            /\ HasError(after, p.key)
            /\ after.errors[p.key] = p.error

C27_Witness ==
    /\ state \notin Snapshots
    /\ DOMAIN state.errors = {"towers"}
    /\ state.errors["towers"] = "Failed to fetch"
    /\ ~state.loading["towers"]
    /\ state.loading["cameras"]

C29_Times == {clock, MaxClock}

C29_IsSnapshot(s) ==
    /\ DOMAIN s = DOMAIN initialState
    /\ DOMAIN s.loading = Keys
    /\ DOMAIN s.errors \subseteq Keys
    /\ DOMAIN s.overview = DOMAIN initialState.overview

C29_Total ==
    \A type \in CommandTypes : \A a \in CommandsOf(type) :
        LET r == surveillanceReducer(state, a, clock)
        IN  /\ C29_IsSnapshot(r)
            /\ a.type \notin actionTypes => r = state

-----------------------------------------------------------------------------
(* C30: the one-shot operations stay out of the session. captureSnapshot    *)
(* changes no session field whatever the answer; getDetections replaces the *)
(* detection set by the answer's on success and changes nothing else, and   *)
(* changes nothing at all on failure. The step in which either request      *)
(* settles leaves connection status, frame, error and stream connection as  *)
(* they were.                                                               *)
C30_Session == {"isConnected", "isLoading", "error", "currentImage", "streamUrl",
                "cameraInfo", "eventSourceRef", "sources", "created"}

C30_OneShotsStayOut ==
    /\ [](\A o \in SnapshotOutcomes : captureSnapshot(player, o) = player)
    /\ [](\A o \in DetectionsOutcomes :
            LET after == getDetections(player, o)
            IN  /\ \A f \in C30_Session : after[f] = player[f]
                /\ after.detections =
                        IF ~o.thrown /\ o.ok /\ o.success THEN o.detections
                        ELSE player.detections)
    /\ [][(player'.requests # player.requests /\ player'.requests \subseteq player.requests) =>
              /\ \A f \in C30_Session : player'[f] = player[f]
              /\ "snapshot" \in player.requests \ player'.requests =>
                    player'.detections = player.detections
              /\ player'.detections # player.detections =>
                    player'.detections \in OnDemandDetections]_vars

C30_Witness ==
    /\ player.detections = <<[class_name |-> "car", confidence |-> 1]>>
    /\ player.isConnected
    /\ player.currentImage \in Images
    /\ player.error = Null
    /\ player.requests = {}

-----------------------------------------------------------------------------
(* C31: stream sessions are isolated. A stream event, a stream error or a   *)
(* connect failure of one camera's session changes no field of the other    *)
(* camera's session, and none of them changes the shared store (errors,     *)
(* alarms, overview and the rest of the snapshot stay as they were).        *)
C31_SessionsIsolated ==
    [][/\ player' # player => peer' = peer
       /\ peer' # peer => player' = player
       /\ state' = state
       /\ fetches' = fetches /\ mutations' = mutations /\ probes' = probes]_vars

C31_Witness ==
    /\ peer.error = "Live feed connection lost"
    /\ ~peer.isConnected
    /\ player.isConnected
    /\ player.currentImage = "img1"
    /\ player.error = Null
    /\ state = initialState

-----------------------------------------------------------------------------
(* C32: entity ids stay unique. From a store whose collections hold at most *)
(* one entity per id, a Set* command delivering a list of pairwise distinct *)
(* ids, an AddAlarm whose id is not in alarms, and any Update* command      *)
(* yield a store whose collections again hold at most one entity per id;    *)
(* an AddAlarm whose id is already in alarms yields that id twice.          *)
C32_Unique(list) ==
    \A i, j \in DOMAIN list : list[i].id = list[j].id => i = j

C32_AllUnique(s) ==
    C32_Unique(s.towers) /\ C32_Unique(s.cameras) /\ C32_Unique(s.alarms)

C32_Has(list, id) == \E i \in DOMAIN list : list[i].id = id

C32_Admitted(a) ==
    CASE a.type \in {"SET_TOWERS", "SET_CAMERAS", "SET_ALARMS"} -> C32_Unique(a.payload)
      [] a.type = "ADD_ALARM" -> ~C32_Has(state.alarms, a.payload.id)
      [] OTHER -> TRUE

C32_IdsStayUnique ==
    /\ C32_AllUnique(state) =>
            \A type \in CommandTypes : \A a \in CommandsOf(type) :
                C32_Admitted(a) => C32_AllUnique(surveillanceReducer(state, a, clock))
    /\ \A A \in CommandPayloads("ADD_ALARM") :
            C32_Has(state.alarms, A.id) =>
                ~C32_Unique(surveillanceReducer(state, Cmd("ADD_ALARM", A), clock).alarms)

C32_Witness ==
    /\ state \notin Snapshots
    /\ state.alarms = <<Alarm("a3", "active"), Alarm("a1", "active")>>
    /\ C32_AllUnique(state)
    /\ state.towers \in TowerLists

(* C33: while a fetch for a resource key is in flight, loading[key] is true. *)
C33_LoadingWhileInFlight ==
    \A k \in Keys : InFlight(k) # {} => state.loading[k]

(* C34: a session that shows as disconnected, with no connect in progress,  *)
(* holds no open stream connection.                                         *)
C34_OfflineHoldsNoStream ==
    (~player.isConnected /\ connects = {}) => player.sources = {}

(* C35: createTower and createCamera reject exactly when the create request *)
(* itself fails. When the refetch a create call awaits fails, the failure   *)
(* is recorded in errors[key], the collection keeps its contents, and the   *)
(* call returns in that step; a create call rejects only in the step in     *)
(* which its own request settles, without a refetch having been started.    *)
C35_RejectsOnlyOnCreateFailure ==
    /\ [](\A m \in mutations : \A h \in HttpOutcomes(MutationData(m)) :
            (m.phase = "api" /\ m.op \in Creates) =>
                (MutationOutcome(m, request(h)).result = "thrown") = Fails(h))
    /\ [](\A f \in fetches : \A h \in HttpOutcomes(DataFor(f.key)) :
            (f.waiter # NoWaiter /\ Fails(h)) =>
                LET after == FetchResume(state, f.key, request(h), clock)
                IN  /\ HasError(after, f.key)
                    /\ Collection(after, f.key) = Collection(state, f.key))
    /\ [][(\E f \in fetches \ fetches' : f.waiter # NoWaiter) =>
              outcome'.result = "returned" /\ outcome'.op \in Creates]_vars
    /\ [][(outcome'.op \in Creates /\ outcome'.result = "thrown") =>
              /\ \E m \in mutations \ mutations' : m.phase = "api" /\ m.op = outcome'.op
              /\ fetches' = fetches]_vars

C35_Witness ==
    /\ outcome.op = "createTower"
    /\ outcome.result = "returned"
    /\ HasError(state, "towers")
    /\ state.towers = <<Tower("t1", "A")>>
    /\ Len(settled["towers"]) = 2

(* C36: overview.active_alarms_count is changed by SetOverview and AddAlarm *)
(* only: every other command, UpdateAlarm and SetAlarms among them, leaves  *)
(* it as it was, so an alarm that AddAlarm counted is still counted after   *)
(* it has been resolved.                                                    *)
C36_Count(s) == s.overview.active_alarms_count

C36_CountOnlyByOverviewAndAdd ==
    /\ \A type \in CommandTypes \ {"SET_OVERVIEW", "ADD_ALARM"} :
            \A a \in CommandsOf(type) :
                C36_Count(surveillanceReducer(state, a, clock)) = C36_Count(state)
    /\ \A A \in CommandPayloads("ADD_ALARM") :
            LET added == surveillanceReducer(state, Cmd("ADD_ALARM", A), clock)
                resolved == surveillanceReducer(added,
                                Cmd("UPDATE_ALARM", [id |-> A.id, status |-> "resolved"]), clock)
            IN  /\ C36_Count(added) = C36_Count(state) + 1
                /\ C36_Count(resolved) = C36_Count(state) + 1

C36_Witness ==
    /\ state \notin Snapshots
    /\ state.alarms = <<Alarm("a1", "resolved")>>
    /\ state.overview = Overview(3, 9, 1, "ok")

(* C37: every connectToCamera attempt whose backend calls complete ends     *)
(* with isLoading = false, and the attempt marks the session connected only *)
(* if the whole connect sequence succeeded (status, gateway connect and     *)
(* camera metadata) and the live-feed stream was opened; a failed attempt   *)
(* never sets isConnected to true.                                          *)
C37_ConnectedOnlyOnSuccess ==
    [][mounted = "mounted" =>
          \A c \in connects :
              /\ \A o \in StatusOutcomes :
                    (StatusSettle(c, o) /\ o.thrown) =>
                        ~player'.isLoading /\ (player'.isConnected => player.isConnected)
              /\ \A o \in ConnectOutcomes :
                    (ConnectSettle(c, o) /\ (o.thrown \/ ~o.ok)) =>
                        ~player'.isLoading /\ (player'.isConnected => player.isConnected)
              /\ \A o \in CamerasOutcomes :
                    CamerasSettle(c, o) =>
                        /\ ~player'.isLoading
                        /\ IF o.thrown \/ ~o.ok \/ ~o.found
                           THEN player'.isConnected => player.isConnected
                           ELSE /\ player'.isConnected
                                /\ player'.created = player.created + 1
                                /\ player'.eventSourceRef \in player'.sources]_vars
====
